---- MODULE Spec2Model ----
(***************************************************************************)
(* Verification model of the CPT soil-layout handling of the pile          *)
(* foundation application (app/cpt_file/model.py, controller.py).          *)
(*                                                                         *)
(* Numbers.  Python floats are binary floating point numbers.  The model   *)
(* keeps that: a number is an integer count of 2^-Frac units ("grid"), and *)
(* every arithmetic result is rounded to Precision significant bits, round *)
(* half to even, as IEEE-754 does with 53 bits.                            *)
(***************************************************************************)
EXTENDS Integers, Naturals, Sequences, FiniteSets, TLC

\* ------------------------------------------------------------------ bounds
Precision == 10          \* significant bits of a float (53 in CPython)
MaxRows == 2             \* rows of the user soil table
MaxDepth == 2            \* deepest level the user can enter, in millimeter
MaxSamples == 2          \* samples of a classified file
MaxMinThickness == 1     \* largest min_layer_thickness, in millimeter
MaxData == 3             \* rows of a signal of measurement_data
MaxFilterRows == 3       \* rows of a table handed to the filter
MaxFilterDepth == 6      \* deepest level of such a table, in millimeter
MaxFilterMin == 2        \* largest min_layer_thickness tried on it
MaxFileSamples == 5      \* samples of an uploaded file

\* ------------------------------------------------------------- arithmetic
Frac == Precision + 10
One == 2 ^ Frac

Abs(n) == IF n < 0 THEN 0 - n ELSE n

Sgn(n) == IF n < 0 THEN 0 - 1 ELSE 1

\* number of bits of a natural number (0 for 0)
BitLen(n) == IF n = 0 THEN 0 ELSE CHOOSE k \in 1..30 : 2 ^ (k - 1) <= n /\ n < 2 ^ k

Max2(a, b) == IF a >= b THEN a ELSE b

\* a / d for a natural a and a positive d, rounded to Precision bits
RoundQuot(a, d) ==
    LET s == Max2(0, BitLen(a \div d) - Precision)
        D == d * (2 ^ s)
        q == a \div D
        r == a % D
        up == IF 2 * r > D \/ (2 * r = D /\ q % 2 = 1) THEN 1 ELSE 0
    IN (q + up) * (2 ^ s)

\* float(n): the grid value n rounded to Precision bits
Fl(n) == Sgn(n) * RoundQuot(Abs(n), 1)

\* Python a - b on floats
FSub(a, b) == Fl(a - b)

\* Python a * k for an integer constant k
FMul(a, k) == Fl(a * k)

\* Python a / k for a positive integer constant k
FDiv(a, k) == Sgn(a) * RoundQuot(Abs(a), k)

\* the float of an integer
Num(i) == Fl(i * One)

\* Python round(a): the nearest integer, half to even
Round(a) ==
    LET q == Abs(a) \div One
        r == Abs(a) % One
        up == IF 2 * r > One \/ (2 * r = One /\ q % 2 = 1) THEN 1 ELSE 0
    IN Sgn(a) * (q + up)

\* del s[i] of a list, 1-based
RemoveAt(s, i) == [j \in 1..(Len(s) - 1) |-> IF j < i THEN s[j] ELSE s[j + 1]]

\* ---------------------------------------------------------------- catalog
\* The soil-type catalog: an ordered table of records, read-only.
DEFAULT_ROBERTSON_TABLE ==
    << [ui_name |-> "Sand", color |-> <<2, 4, 6>>, soil_type_nl |-> "SAND"],
       [ui_name |-> "Clay", color |-> <<1, 3, 5>>, soil_type_nl |-> "CLAY"] >>

SoilIds == 1..Len(DEFAULT_ROBERTSON_TABLE)

SoilNames == {DEFAULT_ROBERTSON_TABLE[i].ui_name : i \in SoilIds}

\* the catalog entry with a given ui_name (the first one)
SoilByName(name) ==
    CHOOSE i \in SoilIds :
        /\ DEFAULT_ROBERTSON_TABLE[i].ui_name = name
        /\ \A j \in 1..(i - 1) : DEFAULT_ROBERTSON_TABLE[j].ui_name # name

\* ------------------------------------------------------------------- units
\* a depth in millimeter as a depth in meter
ToMeter(v) == FDiv(v, 1000)

\* a depth in meter as a depth in millimeter
ToMillimeter(v) == FMul(v, 1000)

\* ----------------------------------------------------------------- layouts
\* A SoilLayout object is [layers |-> <<layer, ...>>]; a layer object is
\* [soil |-> catalog id, top_of_layer |-> float, bottom_of_layer |-> float].

Layer(soil, top, bottom) ==
    [soil |-> soil, top_of_layer |-> top, bottom_of_layer |-> bottom]

SoilLayout(layers) == [layers |-> layers]

\* SoilLayer.thickness
Thickness(layer) == FSub(layer.top_of_layer, layer.bottom_of_layer)

\* SoilLayout.serialize(): the nested dict form
Serialize(layout) ==
    [layers |-> [i \in 1..Len(layout.layers) |->
        [soil |-> [name |-> DEFAULT_ROBERTSON_TABLE[layout.layers[i].soil].ui_name,
                   color |-> DEFAULT_ROBERTSON_TABLE[layout.layers[i].soil].color],
         top_of_layer |-> layout.layers[i].top_of_layer,
         bottom_of_layer |-> layout.layers[i].bottom_of_layer]]]

\* variant: top and bottom taken from the wrong keys
FromDict_swapped(d) ==
    SoilLayout([i \in 1..Len(d.layers) |->
        Layer(SoilByName(d.layers[i].soil.name),
              d.layers[i].bottom_of_layer,
              d.layers[i].top_of_layer)])

\* SoilLayout.from_dict(): a new layout object from the nested dict form
FromDict(d) ==
    SoilLayout([i \in 1..Len(d.layers) |->
        Layer(SoilByName(d.layers[i].soil.name),
              d.layers[i].top_of_layer,
              d.layers[i].bottom_of_layer)])

\* every depth value of the layout scaled by 1/1000
ScaledToMeter(layout) ==
    LET d == Serialize(layout)
        scaled == [layers |-> [i \in 1..Len(d.layers) |->
                     [d.layers[i] EXCEPT
                        !.top_of_layer = ToMeter(@),
                        !.bottom_of_layer = ToMeter(@)]]]
    IN FromDict(scaled)

\* one table row per layer: the soil name and the top of the layer
convert_soil_layout_to_input_table_field(layout) ==
    [i \in 1..Len(layout.layers) |->
        [name |-> DEFAULT_ROBERTSON_TABLE[layout.layers[i].soil].ui_name,
         top_of_layer |-> layout.layers[i].top_of_layer]]

LayoutError == [error |-> "LayoutError"]

IsError(r) == "error" \in DOMAIN r

\* rows are strictly depth-ordered: each top strictly below the previous one
StrictlyOrdered(rows) ==
    \A i \in 1..(Len(rows) - 1) : rows[i + 1].top_of_layer < rows[i].top_of_layer

\* variant: every layer closed at the bottom bound
LayoutFromTable_to_bottom(bottom, rows) ==
    IF Len(rows) < 1 \/ ~StrictlyOrdered(rows)
    THEN LayoutError
    ELSE SoilLayout([i \in 1..Len(rows) |->
            Layer(SoilByName(rows[i].name),
                  ToMillimeter(rows[i].top_of_layer),
                  ToMillimeter(bottom))])

\* variant: the soil of a row looked up by its position in the table
LayoutFromTable_soil_by_position(bottom, rows) ==
    IF Len(rows) < 1 \/ ~StrictlyOrdered(rows)
    THEN LayoutError
    ELSE SoilLayout([i \in 1..Len(rows) |->
            Layer(IF i \in SoilIds THEN i ELSE 1,
                  ToMillimeter(rows[i].top_of_layer),
                  ToMillimeter(IF i < Len(rows) THEN rows[i + 1].top_of_layer
                               ELSE bottom))])

\* The user layout from the table (meter) and the bottom bound (meter): the
\* bottom of a row is the top of the next row, the bottom of the last row is
\* bottom; the layout is in millimeter.
LayoutFromTable(bottom, rows) ==
    IF Len(rows) < 1 \/ ~StrictlyOrdered(rows)
    THEN LayoutError
    ELSE SoilLayout([i \in 1..Len(rows) |->
            Layer(SoilByName(rows[i].name),
                  ToMillimeter(rows[i].top_of_layer),
                  ToMillimeter(IF i < Len(rows) THEN rows[i + 1].top_of_layer
                               ELSE bottom))])

\* ------------------------------------------------------ filter on thickness
\* the thinnest layer below min_thickness, the upper one on a tie; 0 if none
ThinnestThin(layers, min_thickness) ==
    LET thin == {i \in 1..Len(layers) : Thickness(layers[i]) < min_thickness}
    IN IF thin = {} THEN 0
       ELSE CHOOSE i \in thin :
              \A j \in thin :
                 \/ Thickness(layers[i]) < Thickness(layers[j])
                 \/ Thickness(layers[i]) = Thickness(layers[j]) /\ i <= j

\* variant: the thinner of the two neighbours
MergeTarget_thinner(layers, i) ==
    IF i = 1 THEN 2
    ELSE IF i = Len(layers) THEN i - 1
    ELSE IF Thickness(layers[i + 1]) < Thickness(layers[i - 1]) THEN i + 1
    ELSE i - 1

\* the neighbour a thin layer i is merged into: the thicker of the two, the
\* upper one on a tie
MergeTarget(layers, i) ==
    IF i = 1 THEN 2
    ELSE IF i = Len(layers) THEN i - 1
    ELSE IF Thickness(layers[i + 1]) > Thickness(layers[i - 1]) THEN i + 1
    ELSE i - 1

\* layer i removed, its depth interval given to the neighbour t
MergeInto(layers, i, t) ==
    LET grown == IF t < i
                 THEN [layers EXCEPT ![t].bottom_of_layer = layers[i].bottom_of_layer]
                 ELSE [layers EXCEPT ![t].top_of_layer = layers[i].top_of_layer]
    IN RemoveAt(grown, i)

RECURSIVE RemoveThinLayers(_, _)
RemoveThinLayers(layers, min_thickness) ==
    LET i == ThinnestThin(layers, min_thickness)
    IN IF Len(layers) <= 1 \/ i = 0 THEN layers
       ELSE RemoveThinLayers(MergeInto(layers, i, MergeTarget(layers, i)), min_thickness)

\* directly adjacent layers of the same soil coalesced into one
RECURSIVE MergeAdjacent(_)
MergeAdjacent(layers) ==
    IF \E i \in 1..(Len(layers) - 1) : layers[i].soil = layers[i + 1].soil
    THEN LET i == CHOOSE k \in 1..(Len(layers) - 1) :
                     /\ layers[k].soil = layers[k + 1].soil
                     /\ \A j \in 1..(k - 1) : layers[j].soil # layers[j + 1].soil
         IN MergeAdjacent(MergeInto(layers, i + 1, i))
    ELSE layers

\* the layers left by filtering on thickness
FilteredLayout(layout, min_thickness, merge_adjacent_same_soil_layers) ==
    LET kept == RemoveThinLayers(layout.layers, min_thickness)
    IN SoilLayout(IF merge_adjacent_same_soil_layers THEN MergeAdjacent(kept) ELSE kept)

\* ------------------------------------------------------- measurement data
\* measurement_data maps a signal name to the list of its values; None is the
\* value -1 here, the measured values are naturals.
None == 0 - 1

SignalNames == {"elevation", "qc"}

MinLen(measurement_data) ==
    IF DOMAIN measurement_data = {} THEN 0
    ELSE CHOOSE n \in {Len(measurement_data[s]) : s \in DOMAIN measurement_data} :
            \A s \in DOMAIN measurement_data : n <= Len(measurement_data[s])

\* first loop: the rows of zip(*values) that hold a None, in ascending order
RECURSIVE RowsWithNone(_, _)
RowsWithNone(measurement_data, row_index) ==
    IF row_index > MinLen(measurement_data) THEN <<>>
    ELSE (IF \E s \in DOMAIN measurement_data : measurement_data[s][row_index] = None
          THEN <<row_index>> ELSE <<>>)
         \o RowsWithNone(measurement_data, row_index + 1)

\* del measurement_data[signal][row] for every signal
DelRow(measurement_data, row) ==
    [signal \in DOMAIN measurement_data |-> RemoveAt(measurement_data[signal], row)]

\* second loop: the rows deleted in the order the list gives them
RECURSIVE DelRows(_, _)
DelRows(measurement_data, rows) ==
    IF rows = <<>> THEN measurement_data
    ELSE DelRows(DelRow(measurement_data, Head(rows)), Tail(rows))

Reversed(s) == [i \in 1..Len(s) |-> s[Len(s) + 1 - i]]

\* variant: the rows deleted in ascending order
filter_nones_ascending(raw) ==
    LET rows_to_be_removed == RowsWithNone(raw.measurement_data, 1)
    IN [raw EXCEPT !.measurement_data = DelRows(@, rows_to_be_removed)]

filter_nones_from_params_dict(raw) ==
    LET rows_to_be_removed == RowsWithNone(raw.measurement_data, 1)
    IN [raw EXCEPT !.measurement_data = DelRows(@, Reversed(rows_to_be_removed))]

\* ------------------------------------------------------------ the objects
\* A request works on its own objects.  heap is the sequence of the SoilLayout
\* objects the request has created, a reference is an index into it.  An
\* operation returns the heap it leaves and the reference it returns.
Alloc(heap, layout) == [heap |-> Append(heap, layout), ref |-> Len(heap) + 1]

\* builds a new SoilLayout object from the table, or raises
convert_input_table_field_to_soil_layout(heap, bottom, rows) ==
    LET layout == LayoutFromTable(bottom, rows)
    IN IF IsError(layout) THEN [heap |-> heap, error |-> layout.error]
       ELSE Alloc(heap, layout)

\* alters the instance it is called on and returns it
filter_layers_on_thickness(heap, ref, min_thickness, merge_adjacent_same_soil_layers) ==
    [heap |-> [heap EXCEPT ![ref] =
                 FilteredLayout(heap[ref], min_thickness, merge_adjacent_same_soil_layers)],
     ref |-> ref]

\* returns a new SoilLayout object in meter
convert_soil_layout_from_mm_to_meter(heap, ref) == Alloc(heap, ScaledToMeter(heap[ref]))

\* returns a new SoilLayout object
from_dict(heap, d) == Alloc(heap, FromDict(d))

\* --------------------------------------------------------- classification
SampleSpacing == 1

\* elevation of sample i in millimeter: the first sample at 0, going down
Elevation(i) == Num(0 - (i - 1) * SampleSpacing)

\* one layer per maximal run of samples with the same soil, the last layer
\* closed one sample spacing below the last sample
RECURSIVE RunLayers(_, _)
RunLayers(labels, from) ==
    IF from > Len(labels) THEN <<>>
    ELSE LET stop == CHOOSE k \in (from + 1)..(Len(labels) + 1) :
                        /\ \A j \in from..(k - 1) : labels[j] = labels[from]
                        /\ (k <= Len(labels) => labels[k] # labels[from])
         IN <<Layer(labels[from], Elevation(from), Elevation(stop))>>
              \o RunLayers(labels, stop)

\* variant: one layer per sample
ClassifiedLayout_layer_per_sample(labels) ==
    SoilLayout([i \in 1..Len(labels) |-> Layer(labels[i], Elevation(i), Elevation(i + 1))])

\* the layout classification produces, in millimeter
ClassifiedLayout(labels) == SoilLayout(RunLayers(labels, 1))

\* the params of a new CPT record
classify_cpt_file(labels) ==
    LET layout == ClassifiedLayout(labels)
        meter == ScaledToMeter(layout)
    IN [soil_layout_original |-> Serialize(layout),
        soil_layout |-> convert_soil_layout_to_input_table_field(meter),
        bottom_of_soil_layout_user |-> meter.layers[Len(meter.layers)].bottom_of_layer,
        min_layer_thickness |-> 1]

\* ---------------------------------------------------------------- handlers
\* the fields of the params a handler reads
FilterArgs(p) ==
    [soil_layout |-> p.soil_layout,
     bottom_of_soil_layout_user |-> p.bottom_of_soil_layout_user,
     min_layer_thickness |-> p.min_layer_thickness]

ResetArgs(p) ==
    [soil_layout_original |-> p.soil_layout_original,
     bottom_of_soil_layout_user |-> p.bottom_of_soil_layout_user]

\* What one run of a handler did: the params it read (args), the heap
\* after the layout was built (heap0), after the filter call (heap1) and after
\* the unit conversion (heap2), the references the handler holds, and the
\* SetParametersResult it returned.
NoRun ==
    [handler |-> "none", raised |-> "", args |-> <<>>,
     heap0 |-> <<>>, heap1 |-> <<>>, heap2 |-> <<>>,
     soil_layout_user |-> 0, meter |-> 0, result |-> <<>>]

\* variant: the filter call taken as returning a new layout, which is dropped
filter_handler_drops_filtered(p) ==
    LET bottom_of_soil_layout_user == p.bottom_of_soil_layout_user
        s0 == convert_input_table_field_to_soil_layout(<<>>, bottom_of_soil_layout_user,
                                                       p.soil_layout)
    IN IF IsError(s0)
       THEN [NoRun EXCEPT !.handler = "filter", !.raised = s0.error, !.args = FilterArgs(p)]
       ELSE LET soil_layout_user == s0.ref
                s2 == convert_soil_layout_from_mm_to_meter(s0.heap, soil_layout_user)
                table_input_soil_layers ==
                    convert_soil_layout_to_input_table_field(s2.heap[s2.ref])
            IN [handler |-> "filter", raised |-> "", args |-> FilterArgs(p),
                heap0 |-> s0.heap, heap1 |-> s0.heap, heap2 |-> s2.heap,
                soil_layout_user |-> soil_layout_user, meter |-> s2.ref,
                result |-> [soil_layout |-> table_input_soil_layers]]

\* variant: the error of the table swallowed, an empty table returned
filter_handler_swallows_error(p) ==
    LET bottom_of_soil_layout_user == p.bottom_of_soil_layout_user
        s0 == convert_input_table_field_to_soil_layout(<<>>, bottom_of_soil_layout_user,
                                                       p.soil_layout)
    IN IF IsError(s0)
       THEN [NoRun EXCEPT !.handler = "filter", !.args = FilterArgs(p),
                          !.result = [soil_layout |-> <<>>]]
       ELSE LET soil_layout_user == s0.ref
                s1 == filter_layers_on_thickness(s0.heap, soil_layout_user,
                                                 Num(p.min_layer_thickness), TRUE)
                s2 == convert_soil_layout_from_mm_to_meter(s1.heap, soil_layout_user)
                table_input_soil_layers ==
                    convert_soil_layout_to_input_table_field(s2.heap[s2.ref])
            IN [handler |-> "filter", raised |-> "", args |-> FilterArgs(p),
                heap0 |-> s0.heap, heap1 |-> s1.heap, heap2 |-> s2.heap,
                soil_layout_user |-> soil_layout_user, meter |-> s2.ref,
                result |-> [soil_layout |-> table_input_soil_layers]]

\* variant: the depths scaled to meter in the layout object itself
filter_handler_scales_in_place(p) ==
    LET bottom_of_soil_layout_user == p.bottom_of_soil_layout_user
        s0 == convert_input_table_field_to_soil_layout(<<>>, bottom_of_soil_layout_user,
                                                       p.soil_layout)
    IN IF IsError(s0)
       THEN [NoRun EXCEPT !.handler = "filter", !.raised = s0.error, !.args = FilterArgs(p)]
       ELSE LET soil_layout_user == s0.ref
                s1 == filter_layers_on_thickness(s0.heap, soil_layout_user,
                                                 Num(p.min_layer_thickness), TRUE)
                scaled == ScaledToMeter(s1.heap[soil_layout_user])
                s2 == Alloc([s1.heap EXCEPT ![soil_layout_user] = scaled], scaled)
                table_input_soil_layers ==
                    convert_soil_layout_to_input_table_field(s2.heap[s2.ref])
            IN [handler |-> "filter", raised |-> "", args |-> FilterArgs(p),
                heap0 |-> s0.heap, heap1 |-> s1.heap, heap2 |-> s2.heap,
                soil_layout_user |-> soil_layout_user, meter |-> s2.ref,
                result |-> [soil_layout |-> table_input_soil_layers]]

\* variant: adjacent layers of the same soil not merged
filter_handler_without_merge(p) ==
    LET bottom_of_soil_layout_user == p.bottom_of_soil_layout_user
        s0 == convert_input_table_field_to_soil_layout(<<>>, bottom_of_soil_layout_user,
                                                       p.soil_layout)
    IN IF IsError(s0)
       THEN [NoRun EXCEPT !.handler = "filter", !.raised = s0.error, !.args = FilterArgs(p)]
       ELSE LET soil_layout_user == s0.ref
                s1 == filter_layers_on_thickness(s0.heap, soil_layout_user,
                                                 Num(p.min_layer_thickness), FALSE)
                s2 == convert_soil_layout_from_mm_to_meter(s1.heap, soil_layout_user)
                table_input_soil_layers ==
                    convert_soil_layout_to_input_table_field(s2.heap[s2.ref])
            IN [handler |-> "filter", raised |-> "", args |-> FilterArgs(p),
                heap0 |-> s0.heap, heap1 |-> s1.heap, heap2 |-> s2.heap,
                soil_layout_user |-> soil_layout_user, meter |-> s2.ref,
                result |-> [soil_layout |-> table_input_soil_layers]]

\* variant: the filtered layout converted to meter twice
filter_handler_converts_twice(p) ==
    LET bottom_of_soil_layout_user == p.bottom_of_soil_layout_user
        s0 == convert_input_table_field_to_soil_layout(<<>>, bottom_of_soil_layout_user,
                                                       p.soil_layout)
    IN IF IsError(s0)
       THEN [NoRun EXCEPT !.handler = "filter", !.raised = s0.error, !.args = FilterArgs(p)]
       ELSE LET soil_layout_user == s0.ref
                s1 == filter_layers_on_thickness(s0.heap, soil_layout_user,
                                                 Num(p.min_layer_thickness), TRUE)
                s2 == convert_soil_layout_from_mm_to_meter(s1.heap, soil_layout_user)
                s3 == convert_soil_layout_from_mm_to_meter(s2.heap, s2.ref)
                table_input_soil_layers ==
                    convert_soil_layout_to_input_table_field(s3.heap[s3.ref])
            IN [handler |-> "filter", raised |-> "", args |-> FilterArgs(p),
                heap0 |-> s0.heap, heap1 |-> s1.heap, heap2 |-> s3.heap,
                soil_layout_user |-> soil_layout_user, meter |-> s3.ref,
                result |-> [soil_layout |-> table_input_soil_layers]]

filter_soil_layout_on_min_layer_thickness(p) ==
    LET bottom_of_soil_layout_user == p.bottom_of_soil_layout_user
        s0 == convert_input_table_field_to_soil_layout(<<>>, bottom_of_soil_layout_user,
                                                       p.soil_layout)
    IN IF IsError(s0)
       THEN [NoRun EXCEPT !.handler = "filter", !.raised = s0.error, !.args = FilterArgs(p)]
       ELSE LET soil_layout_user == s0.ref
                s1 == filter_layers_on_thickness(s0.heap, soil_layout_user,
                                                 Num(p.min_layer_thickness), TRUE)
                s2 == convert_soil_layout_from_mm_to_meter(s1.heap, soil_layout_user)
                table_input_soil_layers ==
                    convert_soil_layout_to_input_table_field(s2.heap[s2.ref])
            IN [handler |-> "filter", raised |-> "", args |-> FilterArgs(p),
                heap0 |-> s0.heap, heap1 |-> s1.heap, heap2 |-> s2.heap,
                soil_layout_user |-> soil_layout_user, meter |-> s2.ref,
                result |-> [soil_layout |-> table_input_soil_layers]]

\* variant: the layout in meter also written back as the original layout
reset_handler_overwrites_original(p) ==
    LET s0 == from_dict(<<>>, p.soil_layout_original)
        soil_layout_original == s0.ref
        s2 == convert_soil_layout_from_mm_to_meter(s0.heap, soil_layout_original)
        table_input_soil_layers == convert_soil_layout_to_input_table_field(s2.heap[s2.ref])
    IN [handler |-> "reset", raised |-> "", args |-> ResetArgs(p),
        heap0 |-> s0.heap, heap1 |-> s0.heap, heap2 |-> s2.heap,
        soil_layout_user |-> soil_layout_original, meter |-> s2.ref,
        result |-> [soil_layout |-> table_input_soil_layers,
                    soil_layout_original |-> Serialize(s2.heap[s2.ref]),
                    bottom_of_soil_layout_user |-> p.bottom_of_soil_layout_user]]

\* variant: the table filled from the layout in millimeter
reset_handler_without_conversion(p) ==
    LET s0 == from_dict(<<>>, p.soil_layout_original)
        soil_layout_original == s0.ref
        s2 == Alloc(s0.heap, s0.heap[soil_layout_original])
        table_input_soil_layers == convert_soil_layout_to_input_table_field(s2.heap[s2.ref])
    IN [handler |-> "reset", raised |-> "", args |-> ResetArgs(p),
        heap0 |-> s0.heap, heap1 |-> s0.heap, heap2 |-> s2.heap,
        soil_layout_user |-> soil_layout_original, meter |-> s2.ref,
        result |-> [soil_layout |-> table_input_soil_layers,
                    bottom_of_soil_layout_user |-> p.bottom_of_soil_layout_user]]

\* variant: the table the params hold returned as it is
reset_handler_keeps_table(p) ==
    LET s0 == from_dict(<<>>, p.soil_layout_original)
        soil_layout_original == s0.ref
        s2 == convert_soil_layout_from_mm_to_meter(s0.heap, soil_layout_original)
    IN [handler |-> "reset", raised |-> "", args |-> ResetArgs(p),
        heap0 |-> s0.heap, heap1 |-> s0.heap, heap2 |-> s2.heap,
        soil_layout_user |-> soil_layout_original, meter |-> s2.ref,
        result |-> [soil_layout |-> p.soil_layout,
                    bottom_of_soil_layout_user |-> p.bottom_of_soil_layout_user]]

reset_soil_layout_user(p) ==
    LET s0 == from_dict(<<>>, p.soil_layout_original)
        soil_layout_original == s0.ref
        s2 == convert_soil_layout_from_mm_to_meter(s0.heap, soil_layout_original)
        table_input_soil_layers == convert_soil_layout_to_input_table_field(s2.heap[s2.ref])
    IN [handler |-> "reset", raised |-> "", args |-> ResetArgs(p),
        heap0 |-> s0.heap, heap1 |-> s0.heap, heap2 |-> s2.heap,
        soil_layout_user |-> soil_layout_original, meter |-> s2.ref,
        result |-> [soil_layout |-> table_input_soil_layers,
                    bottom_of_soil_layout_user |-> p.bottom_of_soil_layout_user]]

\* the fields of a SetParametersResult written into the params
SetParameters(p, result) ==
    [k \in DOMAIN p |-> IF k \in DOMAIN result THEN result[k] ELSE p[k]]

\* ------------------------------------------------ memoized external runs
MaxExecutions == 2

\* serialized contents of input files, and of the output files of an engine
Contents == {"input a", "input b"}

Outputs == {"output 1", "output 2"}

\* the calls run_scia(input_xml_content, input_def_content, input_esa_content)
\* and run_dfoundations(foi_file_content) by their arguments
MemoKeys ==
    {[func |-> "run_scia", args |-> <<c, "def", "esa">>] : c \in Contents}
    \cup {[func |-> "run_dfoundations", args |-> <<c>>] : c \in Contents}

\* what one execution of an engine ends in: its output file, or execute(300)
\* raising because the engine failed or did not answer in time
EngineOutcomes == {[content |-> o] : o \in Outputs} \cup {[error |-> "TimeoutError"]}

\* the results stored for the arguments
Stored(store, key) == {e \in store : e.key = key}

\* variant: every call executes the engine and stores what it returned
memoize_without_lookup(store, key, engine) ==
    IF IsError(engine)
    THEN [store |-> store, executed |-> TRUE, outcome |-> engine]
    ELSE [store |-> store \cup {[key |-> key, result |-> engine]},
          executed |-> TRUE, outcome |-> engine]

\* a call of a memoized function: the stored result for equal arguments if
\* there is one; otherwise the body runs, and what it returns is stored.  A
\* body that raises returns nothing, so nothing is stored.
memoize(store, key, engine) ==
    IF Stored(store, key) # {}
    THEN [store |-> store, executed |-> FALSE,
          outcome |-> (CHOOSE e \in Stored(store, key) : TRUE).result]
    ELSE IF IsError(engine)
    THEN [store |-> store, executed |-> TRUE, outcome |-> engine]
    ELSE [store |-> store \cup {[key |-> key, result |-> engine]},
          executed |-> TRUE, outcome |-> engine]

\* nothing stored, no engine executed, nothing returned yet
NoMemo ==
    [store |-> {},
     executions |-> [key \in MemoKeys |-> 0],
     first |-> [key \in MemoKeys |-> <<>>],
     hit |-> FALSE]

\* no request in progress
NoRequests == <<>>

\* ------------------------------------------------------------------- state
VARIABLES
    params,       \* the persisted params of the CPT record
    classified,   \* the layout classification produced for the record
    samples,      \* the soil type assigned to each sample of the file
    last,         \* the last run of a handler
    raw_dict,     \* filter_nones_from_params_dict: the dict it works on
    given,        \* filter_nones_from_params_dict: the dict as it was passed
    returned,     \* filter_nones_from_params_dict: whether it has returned
    memo,         \* the memoized runs: results stored, engine executions
    requests      \* the requests in progress on the params

vars == <<params, classified, samples, last, raw_dict, given, returned, memo, requests>>

cpt_vars == <<params, classified, samples, last>>

data_vars == <<raw_dict, given, returned>>

ext_vars == <<memo, requests>>

\* levels the user can type, in meter
UserLevels == {FDiv(Num(0 - d), 1000) : d \in 0..MaxDepth}

SampleLabels == UNION {[1..n -> SoilIds] : n \in 1..MaxSamples}

NoData == [measurement_data |-> <<>>]

Init ==
    /\ \E labels \in SampleLabels :
          /\ samples = labels
          /\ params = classify_cpt_file(labels)
          /\ classified = ClassifiedLayout(labels)
    /\ last = NoRun
    /\ raw_dict = NoData
    /\ given = NoData
    /\ returned = FALSE
    /\ memo = NoMemo
    /\ requests = NoRequests

\* the user edits the table and the fields beside it
EditTop(i, level) ==
    /\ i \in 1..Len(params.soil_layout)
    /\ params.soil_layout[i].top_of_layer # level
    /\ params' = [params EXCEPT !.soil_layout[i].top_of_layer = level]
    /\ last' = NoRun
    /\ UNCHANGED <<classified, samples, data_vars, ext_vars>>

EditName(i, name) ==
    /\ i \in 1..Len(params.soil_layout)
    /\ params.soil_layout[i].name # name
    /\ params' = [params EXCEPT !.soil_layout[i].name = name]
    /\ last' = NoRun
    /\ UNCHANGED <<classified, samples, data_vars, ext_vars>>

AddRow(name, level) ==
    /\ Len(params.soil_layout) < MaxRows
    /\ params' = [params EXCEPT !.soil_layout =
                    Append(@, [name |-> name, top_of_layer |-> level])]
    /\ last' = NoRun
    /\ UNCHANGED <<classified, samples, data_vars, ext_vars>>

DeleteRow(i) ==
    /\ i \in 1..Len(params.soil_layout)
    /\ params' = [params EXCEPT !.soil_layout = RemoveAt(@, i)]
    /\ last' = NoRun
    /\ UNCHANGED <<classified, samples, data_vars, ext_vars>>

EditBottom(level) ==
    /\ params.bottom_of_soil_layout_user # level
    /\ params' = [params EXCEPT !.bottom_of_soil_layout_user = level]
    /\ last' = NoRun
    /\ UNCHANGED <<classified, samples, data_vars, ext_vars>>

EditMinThickness(t) ==
    /\ params.min_layer_thickness # t
    /\ params' = [params EXCEPT !.min_layer_thickness = t]
    /\ last' = NoRun
    /\ UNCHANGED <<classified, samples, data_vars, ext_vars>>

\* the button "filter": the handler runs, its result is written to the params
\* unless it raised
Filter ==
    /\ last' = filter_soil_layout_on_min_layer_thickness(params)
    /\ params' = IF last'.raised # "" THEN params ELSE SetParameters(params, last'.result)
    /\ UNCHANGED <<classified, samples, data_vars, ext_vars>>

\* the button "reset"
Reset ==
    /\ last' = reset_soil_layout_user(params)
    /\ params' = SetParameters(params, last'.result)
    /\ UNCHANGED <<classified, samples, data_vars, ext_vars>>

Next ==
    \/ \E i \in 1..MaxRows, level \in UserLevels : EditTop(i, level)
    \/ \E i \in 1..MaxRows, name \in SoilNames : EditName(i, name)
    \/ \E name \in SoilNames, level \in UserLevels : AddRow(name, level)
    \/ \E i \in 1..MaxRows : DeleteRow(i)
    \/ \E level \in UserLevels : EditBottom(level)
    \/ \E t \in 0..MaxMinThickness : EditMinThickness(t)
    \/ Filter
    \/ Reset

Spec == Init /\ [][Next]_vars

\* ------------------------------------------- cleaning the measurement data
Values == {None, 0, 1}

Signals == UNION {[1..n -> Values] : n \in 0..MaxData}

MeasurementData == UNION {[keys -> Signals] : keys \in SUBSET SignalNames}

InitData ==
    /\ samples = <<1>>
    /\ params = classify_cpt_file(<<1>>)
    /\ classified = ClassifiedLayout(<<1>>)
    /\ last = NoRun
    /\ \E measurement_data \in MeasurementData :
          raw_dict = [measurement_data |-> measurement_data]
    /\ given = raw_dict
    /\ returned = FALSE
    /\ memo = NoMemo
    /\ requests = NoRequests

\* CPT.filter_nones_from_params_dict(raw_dict): works on raw_dict itself and
\* returns it
FilterNones ==
    /\ ~returned
    /\ raw_dict' = filter_nones_from_params_dict(raw_dict)
    /\ returned' = TRUE
    /\ UNCHANGED <<given, cpt_vars, ext_vars>>

NextData == FilterNones

SpecData == InitData /\ [][NextData]_vars

\* ------------------------------------------------------------ the CPT model
\* GEFData(params): the parsed file, its signals and, when the params hold
\* them, its coordinates as attributes
GEFData(p) ==
    [k \in {"elevation", "qc"} \cup (DOMAIN p \cap {"x_y_coordinates"}) |->
        IF k = "x_y_coordinates" THEN p.x_y_coordinates ELSE p.measurement_data[k]]

\* CPT.__init__: works on a copy of the params it is given
CPT_init(cpt_params) ==
    LET self_params == filter_nones_from_params_dict(cpt_params)
    IN [params |-> self_params,
        parsed_cpt |-> GEFData(self_params),
        soil_layout_original |-> FromDict(self_params.soil_layout_original)]

UserException(message) == [error |-> "UserException", message |-> message]

\* RDWGSConverter.from_rd_to_wgs
from_rd_to_wgs(xy) == <<xy[1] + 52, xy[2] + 4>>

\* CPT.wgs_coordinates
wgs_coordinates(cpt) ==
    IF \/ "x_y_coordinates" \notin DOMAIN cpt.parsed_cpt
       \/ \E i \in 1..2 : cpt.parsed_cpt.x_y_coordinates[i] = None
    THEN UserException("has no coordinates")
    ELSE LET lat_lon == from_rd_to_wgs(cpt.parsed_cpt.x_y_coordinates)
         IN [lat |-> lat_lon[1], lon |-> lat_lon[2]]

\* CPT.get_map_point
get_map_point(cpt) ==
    LET wgs == wgs_coordinates(cpt)
    IN IF IsError(wgs) THEN wgs ELSE [MapPoint |-> <<wgs.lat, wgs.lon>>]

\* FoundationController.visualize_map over the params of all CPT entities
visualize_map(all_cpt_params) ==
    LET all_cpt_models == [i \in 1..Len(all_cpt_params) |-> CPT_init(all_cpt_params[i])]
        cpt_features == [i \in 1..Len(all_cpt_models) |-> get_map_point(all_cpt_models[i])]
    IN IF \E i \in 1..Len(cpt_features) : IsError(cpt_features[i])
       THEN cpt_features[CHOOSE i \in 1..Len(cpt_features) :
                            /\ IsError(cpt_features[i])
                            /\ \A j \in 1..(i - 1) : ~IsError(cpt_features[j])]
       ELSE [MapResult |-> cpt_features]

\* inner loop of get_soil_colors: the colors of the catalog entries k.. that
\* have the name
RECURSIVE CatalogColors(_, _)
CatalogColors(name, k) ==
    IF k > Len(DEFAULT_ROBERTSON_TABLE) THEN <<>>
    ELSE (IF name = DEFAULT_ROBERTSON_TABLE[k].ui_name
          THEN <<DEFAULT_ROBERTSON_TABLE[k].color>> ELSE <<>>)
         \o CatalogColors(name, k + 1)

\* outer loop of get_soil_colors: the colors appended for the rows i..
RECURSIVE RowColors(_, _)
RowColors(rows, i) ==
    IF i > Len(rows) THEN <<>>
    ELSE CatalogColors(rows[i].name, 1) \o RowColors(rows, i + 1)

get_soil_colors(cpt_params) ==
    LET cpt_instance == CPT_init(cpt_params)
        rows == cpt_instance.params.soil_layout
        elevation == cpt_instance.parsed_cpt.elevation
        colors == RowColors(rows, 1)
        top_levels == <<0>> \o [i \in 1..Len(rows) |-> rows[i].top_of_layer]
    IN IF Len(rows) = 0 \/ Len(elevation) = 0 THEN [error |-> "IndexError"]
       ELSE [colors |-> colors,
             top_levels |-> top_levels,
             surface_level |-> rows[1].top_of_layer,
             top_elevation |-> FDiv(elevation[1], 1000),
             bottom_elevation |-> FDiv(elevation[Len(elevation)], 1000)]

\* name.replace(" tot ", "-").replace("fijnkorrelig", "fijn")
Renamed(name) ==
    CASE name = "Rots tot puin" -> "Rots-puin"
      [] OTHER -> name

\* DEFAULT_ROBERTSON_TABLE[1:10]
SolverSoilTypes ==
    SubSeq(DEFAULT_ROBERTSON_TABLE, 2,
           IF Len(DEFAULT_ROBERTSON_TABLE) < 10 THEN Len(DEFAULT_ROBERTSON_TABLE) ELSE 10)

excavation_level == Num(1)

\* generate_dfoundations_input: what the input file is made of.  The library
\* is handed the coordinates unchecked; point_accepts_none says whether its
\* Point takes a None.
generate_dfoundations_input(cpt_params, top_positive_friction_zone, point_accepts_none) ==
    LET cpt_instance == CPT_init(cpt_params)
        rows == cpt_instance.params.soil_layout
        parsed_cpt == cpt_instance.parsed_cpt
    IN IF Len(rows) = 0 THEN [error |-> "IndexError"]
       ELSE IF "x_y_coordinates" \notin DOMAIN parsed_cpt THEN [error |-> "AttributeError"]
       ELSE IF (\E i \in 1..2 : parsed_cpt.x_y_coordinates[i] = None) /\ ~point_accepts_none
            THEN [error |-> "ValidationError"]
       ELSE IF \E k \in 1..Len(SolverSoilTypes) :
                  SolverSoilTypes[k].soil_type_nl \notin {"CLAY", "GRAVEL", "LOAM", "PEAT", "SAND"}
            THEN UserException("Unidentifiable Soil Type included in CPT")
       ELSE LET top_level_cpt == rows[1].top_of_layer
                rowsel == SelectSeq([i \in 1..Len(parsed_cpt.elevation) |-> i],
                                    LAMBDA i : parsed_cpt.elevation[i] < FMul(top_level_cpt, 1000))
                measured_data == [j \in 1..Len(rowsel) |->
                                    [z |-> FDiv(parsed_cpt.elevation[rowsel[j]], 1000),
                                     qc |-> parsed_cpt.qc[rowsel[j]]]]
                soils == [k \in 1..Len(SolverSoilTypes) |-> Renamed(SolverSoilTypes[k].ui_name)]
                layers == [i \in 1..Len(rows) |->
                             [material |-> Renamed(rows[i].name),
                              top_level |-> rows[i].top_of_layer]]
            IN IF \/ top_positive_friction_zone > top_level_cpt
                  \/ top_positive_friction_zone > excavation_level
               THEN UserException("Top of positive skin friction lies above surface level")
               ELSE [location |-> parsed_cpt.x_y_coordinates,
                     measured_data |-> measured_data,
                     soils |-> soils,
                     layers |-> layers]

\* one run of an operation of the foundation: the params of the CPT it read,
\* what it raised and what it returned
Run(handler, args, outcome) ==
    IF IsError(outcome)
    THEN [NoRun EXCEPT !.handler = handler, !.args = args, !.raised = outcome.error]
    ELSE [NoRun EXCEPT !.handler = handler, !.args = args, !.result = outcome]

\* the names a row of the table can hold: the catalog and a name outside it
TableNames == SoilNames \cup {"Rots tot puin"}

\* x_y_coordinates as the params can hold them
Coordinates == {<<None, None>>, <<1, None>>, <<1, 1>>}

FoundationTables ==
    UNION {[1..n -> [name : TableNames, top_of_layer : UserLevels]] : n \in 0..MaxRows}

InitFoundation ==
    /\ samples = <<1, 2>>
    /\ classified = ClassifiedLayout(samples)
    /\ \E rows \in FoundationTables :
          \/ params = [classify_cpt_file(samples) EXCEPT !.soil_layout = rows]
                         @@ [measurement_data |-> [elevation |-> <<Num(0), Num(0 - 1), Num(0 - 2)>>,
                                                   qc |-> <<1, 1, 1>>]]
          \/ \E xy \in Coordinates :
                params = [classify_cpt_file(samples) EXCEPT !.soil_layout = rows]
                         @@ [measurement_data |-> [elevation |-> <<Num(0), Num(0 - 1), Num(0 - 2)>>,
                                                   qc |-> <<1, 1, 1>>],
                             x_y_coordinates |-> xy]
    /\ last = NoRun
    /\ raw_dict = NoData
    /\ given = NoData
    /\ returned = FALSE
    /\ memo = NoMemo
    /\ requests = NoRequests

GetSoilColors ==
    /\ last' = Run("get_soil_colors", params, get_soil_colors(params))
    /\ UNCHANGED <<params, classified, samples, data_vars, ext_vars>>

GenerateDFoundationsInput ==
    /\ \E top_positive_friction_zone \in {Num(0 - 1), Num(2)}, point_accepts_none \in BOOLEAN :
          last' = Run("generate_dfoundations_input", params,
                      generate_dfoundations_input(params, top_positive_friction_zone,
                                                  point_accepts_none))
    /\ UNCHANGED <<params, classified, samples, data_vars, ext_vars>>

GetMapPoint ==
    /\ last' = Run("get_map_point", params, get_map_point(CPT_init(params)))
    /\ UNCHANGED <<params, classified, samples, data_vars, ext_vars>>

\* the map of the CPT and of a second one with coordinates
VisualizeMap ==
    /\ \E others \in {<<>>, <<[x_y_coordinates |-> <<1, 1>>] @@ params>>} :
          last' = Run("visualize_map", params, visualize_map(<<params>> \o others))
    /\ UNCHANGED <<params, classified, samples, data_vars, ext_vars>>

NextFoundation ==
    \/ GetSoilColors
    \/ GenerateDFoundationsInput
    \/ GetMapPoint
    \/ VisualizeMap

SpecFoundation == InitFoundation /\ [][NextFoundation]_vars

\* ---------------------------------------------------------- the SCIA model
MaxSciaRows == 3

MaxPileLength == 5

number_of_piles_x == 4

number_of_piles_y == 3

\* itertools.product(x, y) over the two linspaces, a position by its two indices
pile_positions ==
    [pile_id \in 1..(number_of_piles_x * number_of_piles_y) |->
        <<((pile_id - 1) \div number_of_piles_y) + 1, ((pile_id - 1) % number_of_piles_y) + 1>>]

\* variant: a pile as long as the CPT is deep refused as well
create_scia_model_refuses_equal(pile_length, soils_and_colors) ==
    LET surface_level == soils_and_colors.surface_level
        maximum_pile_length == FSub(soils_and_colors.top_elevation,
                                    soils_and_colors.bottom_elevation)
    IN IF pile_length >= maximum_pile_length
       THEN UserException("Pile depth exceeds depth of CPT")
       ELSE [beams |-> [pile_id \in DOMAIN pile_positions |->
                [begin_node |-> [x |-> pile_positions[pile_id][1],
                                 y |-> pile_positions[pile_id][2],
                                 z |-> surface_level],
                 end_node |-> [x |-> pile_positions[pile_id][1],
                               y |-> pile_positions[pile_id][2],
                               z |-> FSub(surface_level, pile_length)]]]]

\* create_scia_model: the pile beams of the model, from top node to bottom node
create_scia_model(pile_length, soils_and_colors) ==
    LET surface_level == soils_and_colors.surface_level
        maximum_pile_length == FSub(soils_and_colors.top_elevation,
                                    soils_and_colors.bottom_elevation)
    IN IF pile_length > maximum_pile_length
       THEN UserException("Pile depth exceeds depth of CPT")
       ELSE [beams |-> [pile_id \in DOMAIN pile_positions |->
                [begin_node |-> [x |-> pile_positions[pile_id][1],
                                 y |-> pile_positions[pile_id][2],
                                 z |-> surface_level],
                 end_node |-> [x |-> pile_positions[pile_id][1],
                               y |-> pile_positions[pile_id][2],
                               z |-> FSub(surface_level, pile_length)]]]]

\* list[i] of a Python list, 0-based; a negative index counts from the end
InRange(list, i) == (0 - Len(list)) <= i /\ i < Len(list)

Item(list, i) == IF i >= 0 THEN list[i + 1] ELSE list[Len(list) + i + 1]

\* the loop that counts the top levels before the first one below the pile tip
LevelsAbove(top_levels, pile_depth) ==
    IF \E j \in 1..Len(top_levels) : top_levels[j] < pile_depth
    THEN (CHOOSE j \in 1..Len(top_levels) :
             /\ top_levels[j] < pile_depth
             /\ \A k \in 1..(j - 1) : ~(top_levels[k] < pile_depth)) - 1
    ELSE Len(top_levels)

\* one colored extrusion per beam between the two levels
Extrusions(scia_model, top_level, bottom_level, color) ==
    [pile_id \in DOMAIN scia_model.beams |->
        [point_top |-> [x |-> scia_model.beams[pile_id].begin_node.x,
                        y |-> scia_model.beams[pile_id].begin_node.y,
                        z |-> top_level],
         point_bottom |-> [x |-> scia_model.beams[pile_id].end_node.x,
                           y |-> scia_model.beams[pile_id].end_node.y,
                           z |-> bottom_level],
         color |-> color]]

\* create_visualization_geometries: the colored pile segments, in the order
\* they are appended
create_visualization_geometries(pile_length, scia_model, soils_and_colors) ==
    LET surface_level == soils_and_colors.surface_level
        top_levels == soils_and_colors.top_levels
        colors == soils_and_colors.colors
        pile_depth == FSub(surface_level, pile_length)
        index == LevelsAbove(top_levels, pile_depth)
        loop == 1..(index - 2)
    IN IF \/ \E i \in loop : \/ ~InRange(top_levels, i + 1)
                             \/ ~InRange(top_levels, i)
                             \/ ~InRange(colors, i - 1)
          \/ ~InRange(top_levels, index - 1)
          \/ ~InRange(colors, index)
       THEN [error |-> "IndexError"]
       ELSE [index |-> index,
             pile_depth |-> pile_depth,
             segments |->
                [i \in loop |-> Extrusions(scia_model, Item(top_levels, i + 1),
                                           Item(top_levels, i), Item(colors, i - 1))]
                \o <<Extrusions(scia_model, Item(top_levels, index - 1), pile_depth,
                                Item(colors, index))>>]

\* pile lengths in meter, in steps of half a millimeter, one of them negative
PileLengths == {FDiv(Num(h), 2000) : h \in (0 - 1)..MaxPileLength}

\* the tables the layout builder accepts
SciaTables ==
    {rows \in UNION {[1..n -> [name : SoilNames, top_of_layer : UserLevels]] :
                       n \in 1..MaxSciaRows} : StrictlyOrdered(rows)}

InitScia ==
    /\ samples = <<1, 2>>
    /\ classified = ClassifiedLayout(samples)
    /\ \E rows \in SciaTables :
          params = [classify_cpt_file(samples) EXCEPT !.soil_layout = rows]
                      @@ [measurement_data |-> [elevation |-> <<Num(0), Num(0 - 1), Num(0 - 2)>>,
                                                qc |-> <<1, 1, 1>>]]
    /\ last = NoRun
    /\ raw_dict = NoData
    /\ given = NoData
    /\ returned = FALSE
    /\ memo = NoMemo
    /\ requests = NoRequests

\* generate_scia_input: the soil levels, then the model
GenerateSciaInput ==
    /\ \E pile_length \in PileLengths :
          LET soils_and_colors == get_soil_colors(params)
          IN last' = Run("create_scia_model", params @@ [pile_length |-> pile_length],
                         IF IsError(soils_and_colors) THEN soils_and_colors
                         ELSE create_scia_model(pile_length, soils_and_colors))
    /\ UNCHANGED <<params, classified, samples, data_vars, ext_vars>>

\* visualize_foundation: the soil levels, the model, then the geometries
VisualizeFoundation ==
    /\ \E pile_length \in PileLengths :
          LET soils_and_colors == get_soil_colors(params)
              scia_model == create_scia_model(pile_length, soils_and_colors)
          IN last' = Run("create_visualization_geometries",
                         params @@ [pile_length |-> pile_length],
                         IF IsError(soils_and_colors) THEN soils_and_colors
                         ELSE IF IsError(scia_model) THEN scia_model
                         ELSE create_visualization_geometries(pile_length, scia_model,
                                                              soils_and_colors))
    /\ UNCHANGED <<params, classified, samples, data_vars, ext_vars>>

NextScia ==
    \/ GenerateSciaInput
    \/ VisualizeFoundation

SpecScia == InitScia /\ [][NextScia]_vars

\* ------------------------------------------- the output of D-Foundations
MaxIterations == 2

MaxReaction == 4

\* strengths an iteration block can report
Strengths == {1, 2}

\* a line of the output after split("\n"): its text, and the numbers its
\* columns [:6] or [:9], and [13:20] hold
TextLine(text) == [text |-> text, fields |-> <<>>]

\* the block of iteration k: the marker, the depth two lines below it, the
\* shaft and point strength of GT1B ten lines below it and those of GT2
\* thirteen lines below it
IterationBlock(k, b) ==
    << TextLine("[ITERATION]\r"), TextLine("\r"),
       [text |-> "depth", fields |-> <<0 - k>>] >>
    \o [i \in 1..7 |-> TextLine("\r")]
    \o << [text |-> "GT1B", fields |-> <<b.shaft_gt1b, b.point_gt1b>>],
          TextLine("\r"), TextLine("\r"),
          [text |-> "GT2", fields |-> <<b.shaft_gt2, b.point_gt2>>] >>

Blocks == [shaft_gt1b : Strengths, point_gt1b : Strengths,
           shaft_gt2 : Strengths, point_gt2 : {1}]

RECURSIVE TextOf(_, _)
TextOf(blocks, k) ==
    IF k > Len(blocks) THEN << TextLine("[END OF DUMPFILE]\r") >>
    ELSE IterationBlock(k, blocks[k]) \o TextOf(blocks, k + 1)

\* the outputs of the solver: a header, the iteration blocks, a last line
FodTexts ==
    {<< TextLine("DUMPFILE\r") >> \o TextOf(blocks, 1) :
        blocks \in UNION {[1..n -> Blocks] : n \in 0..MaxIterations}}

\* the lines of the text that are the marker
Markers(text) == SelectSeq([i \in 1..Len(text) |-> i],
                           LAMBDA i : text[i].text = "[ITERATION]\r")

\* variant: the total of GT2 from the shaft strength of GT2
dfoundations_parser_gt2_shaft(text) ==
    LET markers == Markers(text)
    IN IF \E m \in 1..Len(markers) : markers[m] + 13 > Len(text)
       THEN [error |-> "IndexError"]
       ELSE IF \E m \in 1..Len(markers) :
                  \/ Len(text[markers[m] + 2].fields) < 1
                  \/ Len(text[markers[m] + 10].fields) < 2
                  \/ Len(text[markers[m] + 13].fields) < 2
       THEN [error |-> "ValueError"]
       ELSE IF markers = <<>> THEN <<>>
       ELSE [key \in {"Depth", "Bearing Strength GT1B", "Bearing Strength GT2"} |->
               [m \in 1..Len(markers) |->
                  CASE key = "Depth" -> text[markers[m] + 2].fields[1]
                    [] key = "Bearing Strength GT1B" ->
                          text[markers[m] + 10].fields[1] + text[markers[m] + 10].fields[2]
                    [] OTHER ->
                          text[markers[m] + 13].fields[1] + text[markers[m] + 13].fields[2]]]

\* dfoundations_parser: the lists are put in the dict in the rounds of the
\* loop that find a marker
dfoundations_parser(text) ==
    LET markers == Markers(text)
    IN IF \E m \in 1..Len(markers) : markers[m] + 13 > Len(text)
       THEN [error |-> "IndexError"]
       ELSE IF \E m \in 1..Len(markers) :
                  \/ Len(text[markers[m] + 2].fields) < 1
                  \/ Len(text[markers[m] + 10].fields) < 2
                  \/ Len(text[markers[m] + 13].fields) < 2
       THEN [error |-> "ValueError"]
       ELSE IF markers = <<>> THEN <<>>
       ELSE [key \in {"Depth", "Bearing Strength GT1B", "Bearing Strength GT2"} |->
               [m \in 1..Len(markers) |->
                  CASE key = "Depth" -> text[markers[m] + 2].fields[1]
                    [] key = "Bearing Strength GT1B" ->
                          text[markers[m] + 10].fields[1] + text[markers[m] + 10].fields[2]
                    [] OTHER ->
                          text[markers[m] + 10].fields[1] + text[markers[m] + 13].fields[2]]]

\* variant: of the values closest to the reaction the last one taken
closest_last(strengths, max_rz) ==
    strengths[CHOOSE i \in 1..Len(strengths) :
                 /\ \A k \in 1..Len(strengths) :
                       Abs(strengths[i] - max_rz) <= Abs(strengths[k] - max_rz)
                 /\ \A k \in (i + 1)..Len(strengths) :
                       Abs(strengths[i] - max_rz) < Abs(strengths[k] - max_rz)]

\* min(strengths, key=lambda x: abs(x - max_rz)): the first of the values
\* with the smallest key
closest(strengths, max_rz) ==
    strengths[CHOOSE i \in 1..Len(strengths) :
                 /\ \A k \in 1..Len(strengths) :
                       Abs(strengths[i] - max_rz) <= Abs(strengths[k] - max_rz)
                 /\ \A k \in 1..(i - 1) :
                       Abs(strengths[i] - max_rz) < Abs(strengths[k] - max_rz)]

\* list.index(value): the first position that holds the value
IndexOf(list, value) ==
    CHOOSE i \in 1..Len(list) : list[i] = value /\ \A k \in 1..(i - 1) : list[k] # value

\* visualize_intersection: the data items it reports
visualize_intersection(cpt_params, max_rz, text) ==
    LET cpt_instance == CPT_init(cpt_params)
        rows == cpt_instance.params.soil_layout
        parsed_results == dfoundations_parser(text)
    IN IF Len(rows) = 0 THEN [error |-> "IndexError"]
       ELSE IF IsError(parsed_results) THEN parsed_results
       ELSE IF "Bearing Strength GT1B" \notin DOMAIN parsed_results
       THEN [error |-> "KeyError"]
       ELSE LET surface_level == rows[1].top_of_layer
                strengths == parsed_results["Bearing Strength GT1B"]
                closest_bearing_strength == closest(strengths, max_rz)
                index_closest_bearing_strength == IndexOf(strengths, closest_bearing_strength)
                required_pile_tip_level ==
                    Num(parsed_results["Depth"][index_closest_bearing_strength])
            IN [max_rz |-> max_rz,
                required_pile_tip_level |-> required_pile_tip_level,
                required_pile_length |-> FSub(required_pile_tip_level, surface_level)]

\* the call of run_dfoundations for the input file of the CPT
FoiKey == [func |-> "run_dfoundations", args |-> <<"input a">>]

\* the params of a CPT with a table of one row, and the output the solver has
\* returned for its input file
InitResults ==
    /\ samples = <<1, 2>>
    /\ classified = ClassifiedLayout(samples)
    /\ \E level \in UserLevels :
          params = [classify_cpt_file(samples) EXCEPT
                       !.soil_layout = <<[name |-> "Sand", top_of_layer |-> level]>>]
                      @@ [measurement_data |-> [elevation |-> <<Num(0), Num(0 - 1), Num(0 - 2)>>,
                                                qc |-> <<1, 1, 1>>],
                          x_y_coordinates |-> <<1, 1>>]
    /\ last = NoRun
    /\ raw_dict = NoData
    /\ given = NoData
    /\ returned = FALSE
    /\ \E text \in FodTexts :
          memo = [NoMemo EXCEPT !.store = {[key |-> FoiKey, result |-> [content |-> text]]},
                                !.executions[FoiKey] = 1,
                                !.first[FoiKey] = [content |-> text]]
    /\ requests = NoRequests

\* visualize_dfoundations_results: the output of the solver is parsed
ParseOutput ==
    /\ LET text == memoize(memo.store, FoiKey, [error |-> "TimeoutError"]).outcome.content
           parsed_results == dfoundations_parser(text)
       IN last' = Run("dfoundations_parser", [fod_file_content |-> text],
                      IF IsError(parsed_results) THEN parsed_results
                      ELSE [parsed_results |-> parsed_results])
    /\ UNCHANGED <<params, classified, samples, data_vars, ext_vars>>

VisualizeIntersection ==
    /\ \E max_rz \in 1..MaxReaction :
          LET text == memoize(memo.store, FoiKey, [error |-> "TimeoutError"]).outcome.content
          IN last' = Run("visualize_intersection",
                         params @@ [fod_file_content |-> text, max_rz |-> max_rz],
                         visualize_intersection(params, max_rz, text))
    /\ UNCHANGED <<params, classified, samples, data_vars, ext_vars>>

\* -------------------------------------------- the input of D-Foundations
\* moments at which an input file is generated
Times ==
    {[date |-> "2021-01-01", time |-> "10:00:00"],
     [date |-> "2021-01-02", time |-> "11:00:00"]}

\* DFoundationsModel.serialize(path), then readlines(): a line by its first
\* four characters and the rest.  The moment of writing is in the lines that
\* start with DATE and TIME, the model in the others.
serialize(dfoundations_model, now) ==
    << [start |-> "DUMP", rest |-> "FILE"],
       [start |-> "DATE", rest |-> now.date],
       [start |-> "TIME", rest |-> now.time],
       [start |-> "[MOD", rest |-> dfoundations_model],
       [start |-> "[END", rest |-> " OF DUMPFILE]"] >>

\* the line "\n"
EmptyLine == [start |-> "", rest |-> ""]

\* variant: the lines that start with TIME written as they are
write_without_date(lines) ==
    [i \in 1..Len(lines) |->
        IF lines[i].start = "DATE" THEN EmptyLine ELSE lines[i]]

\* the loop that writes the lines back
write_without_date_and_time(lines) ==
    [i \in 1..Len(lines) |->
        IF lines[i].start = "DATE" THEN EmptyLine
        ELSE IF lines[i].start = "TIME" THEN EmptyLine
        ELSE lines[i]]

\* generate_dfoundations_input, to its end: the lines of the file it returns
foi_file(cpt_params, top_positive_friction_zone, now) ==
    LET dfoundations_model ==
            generate_dfoundations_input(cpt_params, top_positive_friction_zone, TRUE)
    IN IF IsError(dfoundations_model) THEN dfoundations_model
       ELSE [lines |-> write_without_date_and_time(serialize(dfoundations_model, now))]

GenerateFoiFile ==
    /\ \E top_positive_friction_zone \in {Num(0 - 1), Num(2)}, now \in Times :
          last' = Run("foi_file",
                      params @@ [top_positive_friction_zone |-> top_positive_friction_zone,
                                 now |-> now],
                      foi_file(params, top_positive_friction_zone, now))
    /\ UNCHANGED <<params, classified, samples, data_vars, ext_vars>>

NextResults ==
    \/ ParseOutput
    \/ VisualizeIntersection
    \/ GenerateFoiFile

SpecResults == InitResults /\ [][NextResults]_vars

\* ------------------------------------------------- filtering larger tables
FilterLevels == {ToMeter(Num(0 - d)) : d \in 0..MaxFilterDepth}

\* the tables the layout builder accepts
FilterTables ==
    {rows \in UNION {[1..n -> [name : SoilNames, top_of_layer : FilterLevels]] :
                       n \in 1..MaxFilterRows} : StrictlyOrdered(rows)}

InitFilter ==
    /\ samples = <<1>>
    /\ classified = ClassifiedLayout(<<1>>)
    /\ \E rows \in FilterTables, bottom \in FilterLevels, t \in 0..MaxFilterMin :
          params = [classify_cpt_file(<<1>>) EXCEPT
                      !.soil_layout = rows,
                      !.bottom_of_soil_layout_user = bottom,
                      !.min_layer_thickness = t]
    /\ last = NoRun
    /\ raw_dict = NoData
    /\ given = NoData
    /\ returned = FALSE
    /\ memo = NoMemo
    /\ requests = NoRequests

NextFilter == Filter

SpecFilter == InitFilter /\ [][NextFilter]_vars

\* ------------------------------------------------------ uploading a file
FileSamples == UNION {[1..n -> SoilIds] : n \in 1..MaxFileSamples}

\* a record that has no params yet
NoParams == <<>>

InitClassify ==
    /\ samples \in FileSamples
    /\ params = NoParams
    /\ classified = SoilLayout(<<>>)
    /\ last = NoRun
    /\ raw_dict = NoData
    /\ given = NoData
    /\ returned = FALSE
    /\ memo = NoMemo
    /\ requests = NoRequests

\* CPTFileController.process_file: the file is classified when it is first
\* uploaded, the result becomes the params of the record
ProcessFile ==
    /\ params = NoParams
    /\ params' = classify_cpt_file(samples)
    /\ classified' = FromDict(params'.soil_layout_original)
    /\ UNCHANGED <<samples, last, data_vars, ext_vars>>

NextClassify == ProcessFile

SpecClassify == InitClassify /\ [][NextClassify]_vars

\* ------------------------------------------------- running the engines
InitMemo ==
    /\ samples = <<1>>
    /\ params = classify_cpt_file(<<1>>)
    /\ classified = ClassifiedLayout(<<1>>)
    /\ last = NoRun
    /\ raw_dict = NoData
    /\ given = NoData
    /\ returned = FALSE
    /\ memo = NoMemo
    /\ requests = NoRequests

\* one call of a memoized function with the arguments of key
RunMemoized(key) ==
    \E engine \in EngineOutcomes :
       LET call == memoize(memo.store, key, engine)
       IN /\ call.executed => memo.executions[key] < MaxExecutions
          /\ memo' = [store |-> call.store,
                      executions |-> IF call.executed
                                     THEN [memo.executions EXCEPT ![key] = @ + 1]
                                     ELSE memo.executions,
                      first |-> IF ~IsError(call.outcome) /\ memo.first[key] = <<>>
                                THEN [memo.first EXCEPT ![key] = call.outcome]
                                ELSE memo.first,
                      hit |-> ~call.executed]
          /\ last' = Run(key.func, key.args, call.outcome)
          /\ UNCHANGED <<params, classified, samples, data_vars, requests>>

RunScia == \E key \in MemoKeys : key.func = "run_scia" /\ RunMemoized(key)

RunDFoundations == \E key \in MemoKeys : key.func = "run_dfoundations" /\ RunMemoized(key)

NextMemo ==
    \/ RunScia
    \/ RunDFoundations

SpecMemo == InitMemo /\ [][NextMemo]_vars

\* --------------------------------------------------- concurrent requests
\* Two requests of the platform run on the persisted params of one CPT record.
RequestIds == {1, 2}

\* a request that has not begun
Idle ==
    [kind |-> "none", pc |-> "idle", overlap |-> FALSE, raw_dict |-> "own",
     own |-> <<>>, rows_to_be_removed |-> <<>>, result |-> <<>>]

\* variant: the CPT keeps the dict it is given
unmunchify_same_dict(cpt_params) == [dict |-> "given", value |-> <<>>]

\* unmunchify(cpt_params): a new dict holding new lists, equal to the one given
unmunchify(cpt_params) == [dict |-> "own", value |-> cpt_params]

\* the dict a request's raw_dict refers to
Dict(r) == IF r.raw_dict = "own" THEN r.own ELSE params

InProgress(i) == requests[i].pc \notin {"idle", "done"}

\* measurement data of MaxData rows: row r of a signal holds r or None
HoledData ==
    {[signal \in SignalNames |->
         [r \in 1..MaxData |-> IF r \in holes[signal] THEN None ELSE r]] :
       holes \in [SignalNames -> SUBSET (1..MaxData)]}

InitConcurrent ==
    /\ samples = <<1, 2>>
    /\ classified = ClassifiedLayout(samples)
    /\ \E measurement_data \in HoledData :
          params = classify_cpt_file(samples) @@ [measurement_data |-> measurement_data]
    /\ last = NoRun
    /\ raw_dict = NoData
    /\ given = params
    /\ returned = FALSE
    /\ memo = NoMemo
    /\ requests = [i \in RequestIds |-> Idle]

\* CPT.__init__, first statements: the request takes its params
BeginCPT(i) ==
    /\ requests[i].pc = "idle"
    /\ LET copy == unmunchify(params)
       IN requests' = [requests EXCEPT ![i] =
             [Idle EXCEPT !.kind = "visualize", !.pc = "scan",
                          !.overlap = \E j \in RequestIds : j # i /\ InProgress(j),
                          !.raw_dict = copy.dict, !.own = copy.value]]
    /\ UNCHANGED <<cpt_vars, data_vars, memo>>

\* filter_nones_from_params_dict, first loop
ScanRows(i) ==
    /\ requests[i].pc = "scan"
    /\ requests' = [requests EXCEPT ![i].pc = "delete",
                                    ![i].rows_to_be_removed =
                                        Reversed(RowsWithNone(Dict(requests[i]).measurement_data, 1))]
    /\ UNCHANGED <<cpt_vars, data_vars, memo>>

\* filter_nones_from_params_dict, one round of the second loop: the row is
\* deleted from every signal of the dict; del of a row a list does not have
\* raises
DeleteMeasurementRow(i) ==
    /\ requests[i].pc = "delete"
    /\ requests[i].rows_to_be_removed # <<>>
    /\ LET row == Head(requests[i].rows_to_be_removed)
           dict == Dict(requests[i])
           cleaned == [dict EXCEPT !.measurement_data = DelRow(@, row)]
       IN IF \E signal \in DOMAIN dict.measurement_data :
                row > Len(dict.measurement_data[signal])
          THEN /\ requests' = [requests EXCEPT ![i].pc = "done",
                                               ![i].result = [error |-> "IndexError"]]
               /\ UNCHANGED params
          ELSE IF requests[i].raw_dict = "own"
          THEN /\ requests' = [requests EXCEPT ![i].own = cleaned,
                                               ![i].rows_to_be_removed = Tail(@)]
               /\ UNCHANGED params
          ELSE /\ requests' = [requests EXCEPT ![i].rows_to_be_removed = Tail(@)]
               /\ params' = cleaned
    /\ UNCHANGED <<classified, samples, last, data_vars, memo>>

\* CPT.__init__, last statements: the CPT the request has constructed
FinishCPT(i) ==
    /\ requests[i].pc = "delete"
    /\ requests[i].rows_to_be_removed = <<>>
    /\ LET dict == Dict(requests[i])
       IN requests' = [requests EXCEPT
             ![i].pc = "done",
             ![i].result = [params |-> dict,
                            parsed_cpt |-> GEFData(dict),
                            soil_layout_original |-> FromDict(dict.soil_layout_original)]]
    /\ UNCHANGED <<cpt_vars, data_vars, memo>>

\* a request that runs the handler of the button "filter"
RequestFilter(i) ==
    /\ requests[i].pc = "idle"
    /\ requests' = [requests EXCEPT ![i] =
          [Idle EXCEPT !.kind = "filter", !.pc = "done",
                       !.overlap = \E j \in RequestIds : j # i /\ InProgress(j),
                       !.result = filter_soil_layout_on_min_layer_thickness(params)]]
    /\ UNCHANGED <<cpt_vars, data_vars, memo>>

\* a request that runs the handler of the button "reset"
RequestReset(i) ==
    /\ requests[i].pc = "idle"
    /\ requests' = [requests EXCEPT ![i] =
          [Idle EXCEPT !.kind = "reset", !.pc = "done",
                       !.overlap = \E j \in RequestIds : j # i /\ InProgress(j),
                       !.result = reset_soil_layout_user(params)]]
    /\ UNCHANGED <<cpt_vars, data_vars, memo>>

NextConcurrent ==
    \/ \E i \in RequestIds : BeginCPT(i)
    \/ \E i \in RequestIds : ScanRows(i)
    \/ \E i \in RequestIds : DeleteMeasurementRow(i)
    \/ \E i \in RequestIds : FinishCPT(i)
    \/ \E i \in RequestIds : RequestFilter(i)
    \/ \E i \in RequestIds : RequestReset(i)

SpecConcurrent == InitConcurrent /\ [][NextConcurrent]_vars

\* ================================================================== claims
Ran(handler) == last.handler = handler /\ last.raised = ""

\* the layout object the handler built and went on with
UserLayout(heap) == heap[last.soil_layout_user]

Bottom(layout) == layout.layers[Len(layout.layers)].bottom_of_layer

Top(layout) == layout.layers[1].top_of_layer

EqualLength(measurement_data) ==
    \A s \in DOMAIN measurement_data, t \in DOMAIN measurement_data :
        Len(measurement_data[s]) = Len(measurement_data[t])

KeptRows(measurement_data) ==
    {i \in 1..MinLen(measurement_data) :
        \A s \in DOMAIN measurement_data : measurement_data[s][i] # None}

\* C1: for signals of equal length, the returned data holds exactly the rows
\* that have no None in any signal, every signal cut to the same rows, in
\* their original order.
C1_RowsWithNoneDropped ==
    (returned /\ EqualLength(given.measurement_data)) =>
        LET before == given.measurement_data
            after == raw_dict.measurement_data
            kept == KeptRows(before)
        IN /\ DOMAIN after = DOMAIN before
           /\ \A s \in DOMAIN after :
                /\ Len(after[s]) = Cardinality(kept)
                /\ \A i \in kept :
                      after[s][Cardinality({j \in kept : j <= i})] = before[s][i]
                /\ \A k \in 1..Len(after[s]) : after[s][k] # None

C1_Witness ==
    /\ returned
    /\ given.measurement_data = [elevation |-> <<None, 0, 1>>, qc |-> <<0, None, 1>>]
    /\ raw_dict.measurement_data = [elevation |-> <<1>>, qc |-> <<1>>]

\* C2: the persisted soil_layout_original is always the one classification
\* stored, and no handler result carries the key soil_layout_original.
C2_OriginalNeverOverwritten ==
    /\ params.soil_layout_original = Serialize(classified)
    /\ "soil_layout_original" \notin DOMAIN last.result

C2_Witness ==
    /\ Ran("filter")
    /\ last.args.soil_layout # last.result.soil_layout
    /\ last.args.bottom_of_soil_layout_user # ToMeter(Bottom(classified))
    /\ params.soil_layout = last.result.soil_layout
    /\ params.soil_layout_original = Serialize(classified)

\* C3: after the filter call of the handler no layer of the user layout is
\* thinner than min_layer_thickness, unless the whole layout is, and the top of
\* the first layer and the bottom of the last layer are as before the call.
C3_NoThinLayerSameInterval ==
    Ran("filter") =>
        LET before == UserLayout(last.heap0)
            after == UserLayout(last.heap1)
            min_thickness == Num(last.args.min_layer_thickness)
        IN /\ \/ \A i \in 1..Len(after.layers) :
                    ~(Thickness(after.layers[i]) < min_thickness)
              \/ FSub(Top(before), Bottom(before)) < min_thickness
           /\ Len(after.layers) >= 1
           /\ Top(after) = Top(before)
           /\ Bottom(after) = Bottom(before)

C3_Witness ==
    /\ Ran("filter")
    /\ last.args.min_layer_thickness = 1
    /\ Len(UserLayout(last.heap0).layers) = 2
    /\ Len(UserLayout(last.heap1).layers) = 1
    /\ Thickness(UserLayout(last.heap0).layers[2]) < Num(1)
    /\ ~(Thickness(UserLayout(last.heap1).layers[1]) < Num(1))

Contiguous(layout) ==
    \A i \in 1..(Len(layout.layers) - 1) :
        layout.layers[i].bottom_of_layer = layout.layers[i + 1].top_of_layer

TopAboveBottom(layout) ==
    \A i \in 1..Len(layout.layers) :
        layout.layers[i].top_of_layer > layout.layers[i].bottom_of_layer

\* C4: every layout the program produces (classification, rebuilt from the
\* table, filtered, converted to meter) is contiguous and every layer has its
\* top strictly above its bottom.
C4_LayoutsContiguousOrdered ==
    /\ Contiguous(classified) /\ TopAboveBottom(classified)
    /\ \A heap \in {last.heap0, last.heap1, last.heap2} :
          \A o \in 1..Len(heap) : Contiguous(heap[o]) /\ TopAboveBottom(heap[o])

\* the layout in meter the handler made the table of
MeterLayout == last.heap2[last.meter]

\* the layout rebuilt from the table the handler returned and the bottom of the
\* layout the table was made of
Rebuilt == LayoutFromTable(Bottom(MeterLayout), last.result.soil_layout)

\* C5 as claimed: a layout, turned into table rows and rebuilt from them with
\* its own bottom, comes back with identical layers.
C5_RoundTripIdentical ==
    last.handler # "none" /\ last.raised = "" => Rebuilt = MeterLayout

\* layout b has the layers of layout a with every boundary converted to
\* millimeter
InMillimeter(a, b) ==
    /\ Len(b.layers) = Len(a.layers)
    /\ \A i \in 1..Len(a.layers) :
          /\ b.layers[i].soil = a.layers[i].soil
          /\ b.layers[i].top_of_layer = ToMillimeter(a.layers[i].top_of_layer)
          /\ b.layers[i].bottom_of_layer = ToMillimeter(a.layers[i].bottom_of_layer)

\* C5 amended: when the rows of the layout are accepted, the rebuilt layout has
\* the same number of layers and the same soil types, and its boundaries are
\* those of the layout converted from meter to millimeter.
C5_RoundTripInMillimeter ==
    (last.handler # "none" /\ last.raised = "" /\ ~IsError(Rebuilt)) =>
        InMillimeter(MeterLayout, Rebuilt)

C5_Witness ==
    /\ Ran("filter")
    /\ Len(MeterLayout.layers) = 2
    /\ ~IsError(Rebuilt)
    /\ Rebuilt # MeterLayout
    /\ Rebuilt.layers[2].top_of_layer = ToMillimeter(MeterLayout.layers[1].bottom_of_layer)

\* C6 as claimed: the layout built from n rows has n layers, layer i with the
\* top and the soil of row i, its bottom the top of row i+1, the last bottom
\* the bottom bound.
C6_LayersFromRows ==
    Ran("filter") =>
        LET rows == last.args.soil_layout
            built == UserLayout(last.heap0)
        IN /\ Len(built.layers) = Len(rows)
           /\ \A i \in 1..Len(rows) :
                /\ DEFAULT_ROBERTSON_TABLE[built.layers[i].soil].ui_name = rows[i].name
                /\ built.layers[i].top_of_layer = rows[i].top_of_layer
                /\ built.layers[i].bottom_of_layer =
                      (IF i < Len(rows) THEN rows[i + 1].top_of_layer
                       ELSE last.args.bottom_of_soil_layout_user)

\* C6 amended: the same, with the levels of the rows and the bottom bound
\* (meter) converted to millimeter.
C6_LayersFromRowsInMillimeter ==
    Ran("filter") =>
        LET rows == last.args.soil_layout
            built == UserLayout(last.heap0)
        IN /\ Len(built.layers) = Len(rows)
           /\ \A i \in 1..Len(rows) :
                /\ DEFAULT_ROBERTSON_TABLE[built.layers[i].soil].ui_name = rows[i].name
                /\ built.layers[i].top_of_layer = ToMillimeter(rows[i].top_of_layer)
                /\ built.layers[i].bottom_of_layer =
                      ToMillimeter(IF i < Len(rows) THEN rows[i + 1].top_of_layer
                                   ELSE last.args.bottom_of_soil_layout_user)

C6_Witness ==
    /\ Ran("filter")
    /\ last.args.soil_layout =
          << [name |-> "Sand", top_of_layer |-> 0],
             [name |-> "Clay", top_of_layer |-> ToMeter(Num(0 - 1))] >>
    /\ last.args.bottom_of_soil_layout_user = ToMeter(Num(0 - 2))
    /\ UserLayout(last.heap0) =
          SoilLayout(<< Layer(1, 0, ToMillimeter(ToMeter(Num(0 - 1)))),
                        Layer(2, ToMillimeter(ToMeter(Num(0 - 1))),
                                 ToMillimeter(ToMeter(Num(0 - 2)))) >>)

\* C7: for a table without rows or with rows that are not strictly ordered the
\* filter handler raises LayoutError, no layout is built, no table is returned
\* and the params stay as they were.
C7_InvalidTableRaises ==
    [][(/\ last'.handler = "filter"
        /\ (Len(params.soil_layout) < 1 \/ ~StrictlyOrdered(params.soil_layout)))
       => /\ last'.raised = "LayoutError"
          /\ last'.heap2 = <<>>
          /\ last'.result = <<>>
          /\ params' = params]_vars

C7_Witness ==
    /\ last.handler = "filter"
    /\ last.raised = "LayoutError"
    /\ Len(last.args.soil_layout) = 2
    /\ last.args.soil_layout[2].top_of_layer > last.args.soil_layout[1].top_of_layer
    /\ params.soil_layout = last.args.soil_layout

IsInteger(v) == Num(Round(v)) = v

\* layout b has the layers of layout a, every boundary of a an integer and
\* the boundary of b rounding to it
SameToTheMillimeter(a, b) ==
    /\ ~IsError(b)
    /\ Len(b.layers) = Len(a.layers)
    /\ \A i \in 1..Len(a.layers) :
          /\ IsInteger(a.layers[i].top_of_layer)
          /\ IsInteger(a.layers[i].bottom_of_layer)
          /\ b.layers[i].soil = a.layers[i].soil
          /\ Num(Round(b.layers[i].top_of_layer)) = a.layers[i].top_of_layer
          /\ Num(Round(b.layers[i].bottom_of_layer)) = a.layers[i].bottom_of_layer

\* C9: a layout with integer millimeter boundaries, converted to meter and
\* back to millimeter, has the same number of layers and the same soils, and
\* every boundary rounds to the millimeter it was.
C9_MillimeterRoundTrip ==
    Ran("reset") => SameToTheMillimeter(UserLayout(last.heap0), Rebuilt)

C9_Witness ==
    /\ Ran("reset")
    /\ Len(UserLayout(last.heap0).layers) = 2
    /\ ~IsError(Rebuilt)
    /\ Rebuilt.layers[2].top_of_layer # UserLayout(last.heap0).layers[2].top_of_layer
    /\ Round(Rebuilt.layers[2].top_of_layer) = 0 - 1

BadSignals(measurement_data) ==
    DOMAIN measurement_data = {} \/ ~EqualLength(measurement_data)

\* C11: for an empty signal set or signals of unequal length the cleaning
\* fails: it never returns a cleaned record set for such input.
C11_BadSignalsNeverCleaned ==
    returned => ~BadSignals(given.measurement_data)

\* CPT.soil_layout: the soil layout based on the input table
CPT_soil_layout(p) == LayoutFromTable(p.bottom_of_soil_layout_user, p.soil_layout)

\* C19: after a reset the table is the table form of the original layout
\* converted from millimeter to meter, whatever the table was, and the bottom
\* of the user layout is the value the params held before.
C19_ResetPlacesOriginal ==
    Ran("reset") =>
        /\ last.result.soil_layout =
              convert_soil_layout_to_input_table_field(ScaledToMeter(classified))
        /\ params.soil_layout = last.result.soil_layout
        /\ last.result.bottom_of_soil_layout_user = last.args.bottom_of_soil_layout_user
        /\ params.bottom_of_soil_layout_user = last.args.bottom_of_soil_layout_user
        /\ DOMAIN last.result = {"soil_layout", "bottom_of_soil_layout_user"}

C19_Witness ==
    /\ Ran("reset")
    /\ Len(classified.layers) = 2
    /\ Len(params.soil_layout) = 2
    /\ params.soil_layout[2].top_of_layer = ToMeter(classified.layers[2].top_of_layer)
    /\ params.bottom_of_soil_layout_user # ToMeter(Bottom(classified))

\* C20: after a reset the user layout, rebuilt from the table and
\* bottom_of_soil_layout_user, is the original layout: the same layers and
\* soils, every boundary the millimeter it was, the last bottom included.
C20_ResetRestoresOriginal ==
    Ran("reset") => SameToTheMillimeter(classified, CPT_soil_layout(params))
\* C12: after the filter call of the handler no two directly adjacent layers
\* of the user layout have the same soil type.
C12_NoAdjacentSameSoil ==
    Ran("filter") =>
        LET after == UserLayout(last.heap1)
        IN \A i \in 1..(Len(after.layers) - 1) :
              after.layers[i].soil # after.layers[i + 1].soil

C12_Witness ==
    /\ Ran("filter")
    /\ last.args.min_layer_thickness = 0
    /\ Len(UserLayout(last.heap0).layers) = 3
    /\ UserLayout(last.heap0).layers[1].soil = UserLayout(last.heap0).layers[2].soil
    /\ UserLayout(last.heap0).layers[2].soil # UserLayout(last.heap0).layers[3].soil
    /\ Len(UserLayout(last.heap1).layers) = 2
    /\ UserLayout(last.heap1).layers[1].bottom_of_layer =
          UserLayout(last.heap0).layers[2].bottom_of_layer

\* the depth interval of layer lies in a layer of layout that has the soil
Covers(layout, layer, soil) ==
    \E j \in 1..Len(layout.layers) :
        /\ layout.layers[j].top_of_layer >= layer.top_of_layer
        /\ layout.layers[j].bottom_of_layer <= layer.bottom_of_layer
        /\ layout.layers[j].soil = soil

Thin(layout, min_thickness) ==
    {i \in 1..Len(layout.layers) : Thickness(layout.layers[i]) < min_thickness}

Neighbours(layout, i) == {i - 1, i + 1} \cap (1..Len(layout.layers))

\* C13: for a layout with every top above its bottom, after the filter call
\* no thin layer is left unless one layer is all that is left; the interval of
\* a layer that was not thin keeps its soil; and where exactly one layer was
\* thin, its interval has the soil of an immediate neighbour, one that is at
\* least as thick as the other neighbour.
C13_ThinMergedIntoThickerNeighbour ==
    (Ran("filter") /\ TopAboveBottom(UserLayout(last.heap0))) =>
        LET before == UserLayout(last.heap0)
            after == UserLayout(last.heap1)
            min_thickness == Num(last.args.min_layer_thickness)
            thin == Thin(before, min_thickness)
        IN /\ Thin(after, min_thickness) = {} \/ Len(after.layers) = 1
           /\ \A k \in (1..Len(before.layers)) \ thin :
                 Covers(after, before.layers[k], before.layers[k].soil)
           /\ \A i \in thin :
                 (thin = {i} /\ Len(before.layers) > 1) =>
                    \E t \in Neighbours(before, i) :
                       /\ \A u \in Neighbours(before, i) :
                             Thickness(before.layers[u]) <= Thickness(before.layers[t])
                       /\ Covers(after, before.layers[i], before.layers[t].soil)

C13_Witness ==
    /\ Ran("filter")
    /\ TopAboveBottom(UserLayout(last.heap0))
    /\ Len(UserLayout(last.heap0).layers) = 3
    /\ Thin(UserLayout(last.heap0), Num(last.args.min_layer_thickness)) = {2}
    /\ Thickness(UserLayout(last.heap0).layers[3]) > Thickness(UserLayout(last.heap0).layers[1])
    /\ UserLayout(last.heap0).layers[1].soil = 1
    /\ UserLayout(last.heap0).layers[2].soil = 1
    /\ UserLayout(last.heap0).layers[3].soil = 2
    /\ Len(UserLayout(last.heap1).layers) = 2
    /\ UserLayout(last.heap1).layers[2].top_of_layer =
          UserLayout(last.heap0).layers[2].top_of_layer

\* the scenario of two layers: a thin Sand layer on a Clay layer becomes one
\* Clay layer over the whole interval
C13_WitnessTwoLayers ==
    /\ Ran("filter")
    /\ last.args.min_layer_thickness = 2
    /\ Len(UserLayout(last.heap0).layers) = 2
    /\ UserLayout(last.heap0).layers[1].soil = 1
    /\ UserLayout(last.heap0).layers[2].soil = 2
    /\ Thin(UserLayout(last.heap0), Num(2)) = {1}
    /\ UserLayout(last.heap1) =
          SoilLayout(<<Layer(2, Top(UserLayout(last.heap0)), Bottom(UserLayout(last.heap0)))>>)
\* the samples after which the soil type changes
Transitions == {i \in 1..(Len(samples) - 1) : samples[i] # samples[i + 1]}

\* C14: the classified layout has one layer per maximal run of samples of the
\* same soil type: it starts at the first sample, every boundary is the
\* elevation of the first sample of a run, the last layer ends one sample
\* spacing below the last sample, every sample lies in a layer of its soil
\* type, and the persisted original is that layout.
C14_OneLayerPerRun ==
    params # NoParams =>
        LET layers == classified.layers
            n == Len(samples)
        IN /\ Len(layers) = Cardinality(Transitions) + 1
           /\ Top(classified) = Elevation(1)
           /\ Bottom(classified) = FSub(Elevation(n), Num(SampleSpacing))
           /\ Contiguous(classified)
           /\ {layers[j].top_of_layer : j \in 2..Len(layers)} =
                 {Elevation(i + 1) : i \in Transitions}
           /\ \A i \in 1..n :
                 \E j \in 1..Len(layers) :
                    /\ layers[j].top_of_layer >= Elevation(i)
                    /\ Elevation(i) > layers[j].bottom_of_layer
                    /\ layers[j].soil = samples[i]
           /\ params.soil_layout_original = Serialize(classified)

\* samples Sand, Sand, Clay, Clay, Clay: a Sand layer of two sample spacings
\* on a Clay layer of three
C14_Witness ==
    /\ params # NoParams
    /\ samples = <<1, 1, 2, 2, 2>>
    /\ classified = SoilLayout(<<Layer(1, Num(0), Num(0 - 2)),
                                 Layer(2, Num(0 - 2), Num(0 - 5))>>)
\* the table the last operation read has a row with a name outside the catalog
UnknownSoilInTable ==
    \E i \in 1..Len(last.args.soil_layout) : last.args.soil_layout[i].name \notin SoilNames

\* C15: an operation that hands the table on raises for a row with a name that
\* is not in the catalog; the colors are one per row of the table, and every
\* material for the solver is a soil of the catalog.
C15_UnknownSoilFailsLoudly ==
    /\ (last.handler \in {"get_soil_colors", "generate_dfoundations_input"}
          /\ UnknownSoilInTable) => last.raised # ""
    /\ (last.handler = "get_soil_colors" /\ last.raised = "") =>
          Len(last.result.colors) = Len(last.args.soil_layout)
    /\ (last.handler = "generate_dfoundations_input" /\ last.raised = "") =>
          \A i \in 1..Len(last.result.layers) :
             \E k \in SoilIds :
                last.result.layers[i].material = Renamed(DEFAULT_ROBERTSON_TABLE[k].ui_name)

\* the CPT the last operation read has no coordinates or a None among them
NoCoordinates ==
    \/ "x_y_coordinates" \notin DOMAIN last.args
    \/ \E i \in 1..2 : last.args.x_y_coordinates[i] = None

\* C16: an operation that needs the coordinates of a CPT that has none ends
\* with the user-facing error and returns nothing.
C16_NoCoordinatesAborts ==
    (last.handler \in {"get_map_point", "visualize_map", "generate_dfoundations_input"}
       /\ NoCoordinates
       /\ Len(last.args.soil_layout) > 0) =>
          /\ last.raised = "UserException"
          /\ last.result = <<>>

\* the key of the last call of a memoized function
LastKey == [func |-> last.handler, args |-> last.args]

OneResultPerInput == \A key \in MemoKeys : Cardinality(Stored(memo.store, key)) <= 1

ReturnsFirstResult ==
    (last.handler \in {"run_scia", "run_dfoundations"} /\ last.raised = "") =>
       last.result = memo.first[LastKey]

\* C17: over any sequence of calls of run_scia and run_dfoundations there is at
\* most one stored result per input, the engine is executed at most once per
\* input, and every call that returns gives the result the first one gave.
C17_ExecutedAtMostOnce ==
    /\ OneResultPerInput
    /\ \A key \in MemoKeys : memo.executions[key] <= 1
    /\ ReturnsFirstResult

\* C17 as it holds: at most one stored result per input; once a result is
\* stored for an input the engine is not executed for it again; every call
\* that returns gives the result the first returning call gave.
C17_NoExecutionOnceStored ==
    /\ [](OneResultPerInput /\ ReturnsFirstResult)
    /\ [][\A key \in MemoKeys :
            Stored(memo.store, key) # {} => memo'.executions[key] = memo.executions[key]]_vars

\* a first execution failed, the second one stored a result, and the last call
\* was answered from the store
C17_Witness ==
    /\ last.handler = "run_dfoundations"
    /\ last.raised = ""
    /\ memo.hit
    /\ memo.executions[LastKey] = 2
    /\ Stored(memo.store, LastKey) = {[key |-> LastKey, result |-> last.result]}

\* what a request of the kind returns when it runs alone on the params
Alone(kind, p) ==
    CASE kind = "visualize" -> CPT_init(p)
      [] kind = "filter" -> filter_soil_layout_on_min_layer_thickness(p)
      [] kind = "reset" -> reset_soil_layout_user(p)

\* C18: two requests on the same persisted params, in every interleaving of
\* their steps: a request that has finished has the result it gets running
\* alone, and the persisted params are as they were passed in.
C18_RequestsShareNoState ==
    /\ requests # NoRequests => params = given
    /\ \A i \in DOMAIN requests :
          requests[i].pc = "done" =>
             requests[i].result = Alone(requests[i].kind, given)

\* both requests have constructed a CPT from params with None rows, the second
\* began while the first was at work
C18_Witness ==
    /\ requests # NoRequests
    /\ \A i \in RequestIds : requests[i].kind = "visualize" /\ requests[i].pc = "done"
    /\ requests[2].overlap
    /\ Len(RowsWithNone(given.measurement_data, 1)) >= 2
    /\ requests[1].result.parsed_cpt.elevation # given.measurement_data.elevation

\* C21: the filter handler run on the table it has just returned, with the
\* same bottom bound and threshold, returns that same table.
C21_FilterIdempotent ==
    [][(Ran("filter") /\ params.soil_layout = last.result.soil_layout
          /\ last'.handler = "filter"
          /\ last'.args.bottom_of_soil_layout_user = last.args.bottom_of_soil_layout_user
          /\ last'.args.min_layer_thickness = last.args.min_layer_thickness)
        => (last'.raised = "" /\ last'.result.soil_layout = params.soil_layout)]_vars

\* the handler has run on a table of two layers that is its own output, with a
\* threshold of two millimeter
C21_Witness ==
    /\ Ran("filter")
    /\ last.args.soil_layout = last.result.soil_layout
    /\ params.soil_layout = last.result.soil_layout
    /\ Len(params.soil_layout) = 2
    /\ last.args.min_layer_thickness = 2

\* the depth of the CPT the last operation read: top_elevation minus
\* bottom_elevation
CptDepth ==
    LET elevation == last.args.measurement_data.elevation
    IN FSub(FDiv(elevation[1], 1000), FDiv(elevation[Len(elevation)], 1000))

\* C22: create_scia_model raises a UserException and returns no model exactly
\* when the pile is longer than the CPT is deep; otherwise it builds the model,
\* and the bottom node of every pile is at surface level minus pile length.
C22_PileWithinCptDepth ==
    last.handler = "create_scia_model" =>
       IF last.args.pile_length > CptDepth
       THEN last.raised = "UserException" /\ last.result = <<>>
       ELSE /\ last.raised = ""
            /\ \A pile_id \in DOMAIN last.result.beams :
                  last.result.beams[pile_id].end_node.z =
                     FSub(last.args.soil_layout[1].top_of_layer, last.args.pile_length)

\* a model built for a pile exactly as long as the CPT is deep
C22_Witness ==
    /\ last.handler = "create_scia_model"
    /\ last.args.pile_length = CptDepth
    /\ last.raised = ""
    /\ Len(last.result.beams) = number_of_piles_x * number_of_piles_y

\* a pile refused for being longer than the CPT is deep
C22_WitnessRefused ==
    /\ last.handler = "create_scia_model"
    /\ last.args.pile_length > CptDepth
    /\ last.raised = "UserException"

\* C23: for a table of at least one row with catalog names only, and a pile
\* length create_scia_model accepts, no list access of
\* create_visualization_geometries is out of range.
C23_IndicesInRange ==
    (last.handler = "create_visualization_geometries"
       /\ Len(last.args.soil_layout) >= 1
       /\ ~UnknownSoilInTable
       /\ last.args.pile_length <= CptDepth) => last.raised # "IndexError"

\* the upper and the lower end of a pile segment
Upper(extrusion) == Max2(extrusion.point_top.z, extrusion.point_bottom.z)

Lower(extrusion) ==
    IF extrusion.point_top.z < extrusion.point_bottom.z
    THEN extrusion.point_top.z ELSE extrusion.point_bottom.z

\* the segments of the pile go from the surface level down to the pile tip,
\* each beginning where the one before ends
TilesPile(segments, pile_id, surface_level, pile_tip) ==
    /\ Upper(segments[1][pile_id]) = surface_level
    /\ Lower(segments[Len(segments)][pile_id]) = pile_tip
    /\ \A i \in 1..Len(segments) : Lower(segments[i][pile_id]) <= Upper(segments[i][pile_id])
    /\ \A i \in 1..(Len(segments) - 1) :
          Lower(segments[i][pile_id]) = Upper(segments[i + 1][pile_id])

\* the segment lies in the layer of row r of the table
LiesInRow(rows, r, extrusion) ==
    /\ Upper(extrusion) <= rows[r].top_of_layer
    /\ r < Len(rows) => rows[r + 1].top_of_layer <= Lower(extrusion)

ColoredAsLayer(rows, extrusion) ==
    \E r \in 1..Len(rows) :
       /\ LiesInRow(rows, r, extrusion)
       /\ extrusion.color = DEFAULT_ROBERTSON_TABLE[SoilByName(rows[r].name)].color

\* C24: for a depth-ordered table of catalog soils and a pile of positive
\* length, the segments returned tile every pile from the surface level to the
\* pile tip, and each has the color of the layer of the table it lies in.
C24_SegmentsTilePile ==
    (last.handler = "create_visualization_geometries"
       /\ last.raised = ""
       /\ StrictlyOrdered(last.args.soil_layout)
       /\ ~UnknownSoilInTable
       /\ last.args.pile_length > 0) =>
          LET rows == last.args.soil_layout
              surface_level == rows[1].top_of_layer
              pile_tip == FSub(surface_level, last.args.pile_length)
              segments == last.result.segments
          IN \A pile_id \in DOMAIN pile_positions :
                /\ TilesPile(segments, pile_id, surface_level, pile_tip)
                /\ \A i \in 1..Len(segments) : ColoredAsLayer(rows, segments[i][pile_id])

\* the first position of the list whose value is closest to the reaction
FirstClosest(strengths, max_rz) ==
    CHOOSE i \in 1..Len(strengths) :
       /\ \A k \in 1..Len(strengths) :
             Abs(strengths[i] - max_rz) <= Abs(strengths[k] - max_rz)
       /\ \A k \in 1..(i - 1) :
             Abs(strengths[k] - max_rz) > Abs(strengths[i] - max_rz)

C26_ThreeListsPerOutput ==
    last.handler = "dfoundations_parser" =>
       LET markers == Markers(last.args.fod_file_content)
       IN /\ last.raised = ""
          /\ DOMAIN last.result.parsed_results =
                {"Depth", "Bearing Strength GT1B", "Bearing Strength GT2"}
          /\ \A key \in DOMAIN last.result.parsed_results :
                Len(last.result.parsed_results[key]) = Len(markers)
          /\ \A m \in 1..Len(markers) :
                last.result.parsed_results["Depth"][m] =
                   last.args.fod_file_content[markers[m] + 2].fields[1]

\* C27: for every iteration block the parsed total of a limit state is the
\* shaft strength plus the point strength of that limit state.
C27_TotalIsShaftPlusPoint ==
    (last.handler = "dfoundations_parser" /\ last.raised = ""
       /\ Markers(last.args.fod_file_content) # <<>>) =>
       LET text == last.args.fod_file_content
           markers == Markers(text)
           parsed_results == last.result.parsed_results
       IN \A m \in 1..Len(markers) :
             /\ parsed_results["Bearing Strength GT1B"][m] =
                   text[markers[m] + 10].fields[1] + text[markers[m] + 10].fields[2]
             /\ parsed_results["Bearing Strength GT2"][m] =
                   text[markers[m] + 13].fields[1] + text[markers[m] + 13].fields[2]

====
